---------------------------- MODULE Spec2Model ----------------------------
(***************************************************************************)
(* A model of topscratchprojects.py: a bounded-concurrency crawl over an   *)
(* inclusive ID range, chunked processing with one ranked CSV artifact per *)
(* chunk, and a final merge of the artifacts into one leaderboard.         *)
(*                                                                         *)
(* The event loop is single-threaded and cooperative: every action below   *)
(* is the code that runs between two suspension points of one coroutine.   *)
(***************************************************************************)
EXTENDS Integers, Sequences, FiniteSets, TLC

(***************************************************************************)
(* Sizes.  The program's own constants are scaled down so that chunking,   *)
(* truncation and semaphore contention all happen on a handful of IDs:     *)
(* the source has CHUNK_SIZE = 100000, TOP_N = 1000000 and a semaphore of  *)
(* 125.                                                                    *)
(***************************************************************************)
MaxId == 5

CHUNK_SIZE == 2

TOP_N == 1

SemCapacity == 2

\* width of the chunk number in an artifact's name: f"top_{chunk_num:10}.csv"
NameWidth == 10

IDs == 1..MaxId

\* view counts a payload may carry
ViewsDom == {9, 10}

(***************************************************************************)
(* Values.  None is the empty option, Some(r) the option holding r.        *)
(***************************************************************************)
None == {}

Some(r) == {r}

TheValue(opt) == CHOOSE r \in opt : TRUE

Max(a, b) == IF a >= b THEN a ELSE b

Min(a, b) == IF a <= b THEN a ELSE b

Range(s) == {s[i] : i \in 1..Len(s)}

(***************************************************************************)
(* Text conversions.  str(n) is the sequence of decimal digit characters   *)
(* of n (character codes, '0' = 48); int(s) parses it back.  A CSV file    *)
(* holds text only: csv.DictWriter writes str(value) for every field and   *)
(* csv.DictReader returns every field as text.                             *)
(***************************************************************************)
RECURSIVE Str(_)
Str(n) == IF n < 10 THEN <<48 + n>> ELSE Str(n \div 10) \o <<48 + (n % 10)>>

RECURSIVE ParseInt(_)
ParseInt(s) == IF Len(s) = 1 THEN s[1] - 48
          ELSE 10 * ParseInt(SubSeq(s, 1, Len(s) - 1)) + (s[Len(s)] - 48)

RECURSIVE Spaces(_)
Spaces(k) == IF k <= 0 THEN <<>> ELSE <<32>> \o Spaces(k - 1)

\* format(n, "10"): right-aligned in a field of at least NameWidth characters
PadLeft(s) == Spaces(NameWidth - Len(s)) \o s

\* a name that does not vary with the chunk number
FileName_Fixed(n) == PadLeft(Str(1))

\* the part of the artifact's name that varies: f"{chunk_num:10}"
FileName(n) == PadLeft(Str(n))

\* lexicographic order on character sequences, the order of sorted(os.listdir())
RECURSIVE LexLess(_, _)
LexLess(a, b) ==
    IF b = <<>> THEN FALSE
    ELSE IF a = <<>> THEN TRUE
    ELSE IF Head(a) # Head(b) THEN Head(a) < Head(b)
    ELSE LexLess(Tail(a), Tail(b))

\* sorted(names): the names of a set in lexicographic order
RECURSIVE Sorted(_)
Sorted(names) ==
    IF names = {} THEN <<>>
    ELSE LET least == CHOOSE n \in names : \A m \in names \ {n} : LexLess(n, m)
         IN  <<least>> \o Sorted(names \ {least})

\* one CSV row: every field written as text
ToRow(rec) == [ID |-> Str(rec.ID), Title |-> rec.Title,
               Creator |-> rec.Creator, Views |-> Str(rec.Views)]

RECURSIVE ToRows(_)
ToRows(recs) == IF recs = <<>> THEN <<>>
                ELSE <<ToRow(Head(recs))>> \o ToRows(Tail(recs))

(***************************************************************************)
(* Ranking.  list.sort(key=..., reverse=True) is stable: elements with     *)
(* equal keys keep their order.  ViewsOf is the key of crawl_projects      *)
(* (x['Views'], a number), RowViews the key of merge_chunks               *)
(* (int(x['Views']), parsed from text).                                    *)
(***************************************************************************)
ViewsOf(rec) == rec.Views

RowViews(row) == ParseInt(row.Views)

\* an insertion that puts an element before those of equal key
RECURSIVE InsertDesc_BeforeEqual(_, _)
InsertDesc_BeforeEqual(kx, s) ==
    IF s = <<>> THEN <<kx>>
    ELSE IF Head(s)[1] > kx[1]
         THEN <<Head(s)>> \o InsertDesc_BeforeEqual(kx, Tail(s))
         ELSE <<kx>> \o s

\* a keyed element <<key, x>> placed behind every element whose key is at
\* least its own
RECURSIVE InsertDesc(_, _)
InsertDesc(kx, s) ==
    IF s = <<>> THEN <<kx>>
    ELSE IF Head(s)[1] >= kx[1] THEN <<Head(s)>> \o InsertDesc(kx, Tail(s))
    ELSE <<kx>> \o s

\* a sequence of keyed elements in non-increasing key order, stable
RECURSIVE SortDesc(_)
SortDesc(s) ==
    IF s = <<>> THEN <<>>
    ELSE InsertDesc(s[Len(s)], SortDesc(SubSeq(s, 1, Len(s) - 1)))

Unkey(s) == [i \in 1..Len(s) |-> s[i][2]]

\* s[:limit]
Truncate(s, limit) == SubSeq(s, 1, Min(Len(s), limit))

\* results left in the order of collection
SortRecords_AsCollected(recs) == recs

\* results.sort(key=lambda x: x['Views'], reverse=True); results[:TOP_N]
SortRecords(recs) == Unkey(SortDesc([i \in 1..Len(recs) |-> <<ViewsOf(recs[i]), recs[i]>>]))

RankRecords(recs, limit) == Truncate(SortRecords(recs), limit)

\* a ranking that cuts to the limit before it sorts
RankRows_CutFirst(rows, limit) ==
    Unkey(SortDesc([i \in 1..Len(Truncate(rows, limit)) |->
                        <<RowViews(rows[i]), rows[i]>>]))

\* all_projects.sort(key=lambda x: int(x['Views']), reverse=True); all_projects[:TOP_N]
SortRows(rows) == Unkey(SortDesc([i \in 1..Len(rows) |-> <<RowViews(rows[i]), rows[i]>>]))

RankRows(rows, limit) == Truncate(SortRows(rows), limit)

(***************************************************************************)
(* The transport collaborator: what one GET may come back with.  exc is    *)
(* the exception session.get raises ("none": a response arrived), status   *)
(* the HTTP status, data the JSON body, of which only the presence of the  *)
(* three fields fetch reads matters, and the view count.                   *)
(***************************************************************************)
Payloads == [has_title : BOOLEAN, has_username : BOOLEAN,
             views : {None} \cup {Some(v) : v \in ViewsDom}]

NoPayload == [has_title |-> FALSE, has_username |-> FALSE, views |-> None]

Responses ==
    {[exc |-> e, status |-> 0, data |-> NoPayload] : e \in {"ClientError", "TimeoutError"}}
    \cup {[exc |-> "none", status |-> 404, data |-> NoPayload]}
    \cup {[exc |-> "none", status |-> 200, data |-> d] : d \in Payloads}

\* the exceptions `except Exception` catches: asyncio.CancelledError is a
\* BaseException and passes through
\* `except aiohttp.ClientError` in place of `except Exception`
Caught_ClientErrorOnly(exc) == exc = "ClientError"

Caught(exc) == exc \in {"ClientError", "TimeoutError", "KeyError"}

Return(value) == [exc |-> "none", value |-> value]

Raise(exc) == [exc |-> exc, value |-> None]

\* an exception raised inside the try block of fetch
Except(exc) == IF Caught(exc) THEN Return(None) ELSE Raise(exc)

\* the status test of fetch
StatusOK(status) == status = 200

\* fetch that tags the record with an id taken from the payload (which need
\* not echo the requested one) in place of project_id
FetchBody_PayloadId(project_id, resp) ==
    IF resp.exc # "none" THEN Except(resp.exc)
    ELSE IF StatusOK(resp.status)
         THEN IF resp.data.has_title /\ resp.data.has_username /\ resp.data.views # None
              THEN Return(Some([ID |-> 0, Title |-> "title", Creator |-> "username",
                                Views |-> TheValue(resp.data.views)]))
              ELSE Except("KeyError")
         ELSE Return(None)

\* the body of fetch once the slot is held: how the task ends on response resp
FetchBody(project_id, resp) ==
    IF resp.exc # "none" THEN Except(resp.exc)
    ELSE IF StatusOK(resp.status)
         THEN IF resp.data.has_title /\ resp.data.has_username /\ resp.data.views # None
              THEN Return(Some([ID |-> project_id, Title |-> "title",
                                Creator |-> "username",
                                Views |-> TheValue(resp.data.views)]))
              ELSE Except("KeyError")
         ELSE Return(None)

(***************************************************************************)
(* State.                                                                  *)
(***************************************************************************)
VARIABLES
    pc,           \* where the main program is
    mode,         \* "none", "chunks" (run_chunks) or "single" (one crawl)
    start_id,     \* the parsed inputs
    end_id,
    chunk_num,    \* run_chunks: the chunk counter
    start,        \* run_chunks: the loop variable
    tasks,        \* the fetch task of every ID: [st, exc, value]
    sem_value,    \* semaphore: free slots
    sem_waiters,  \* semaphore: the tasks blocked in acquire, oldest first
    completed,    \* as_completed: finished tasks not yet handed to the loop
    results,      \* crawl_projects: the result collection
    chunk_bar,    \* ticks of the per-crawl progress bar
    global_bar,   \* ticks of the total progress bar
    requests,     \* network: the number of requests issued for every ID
    chunks_dir,   \* the files of OUTPUT_DIR: name -> rows
    cwd,          \* the files of the working directory: name -> rows
    pending_exc,  \* the exception asyncio.run is unwinding with, or "none"
    chunks,       \* history: the chunks run_chunks generated, <<start, end>>
    written,      \* history: the files written in this run, in order
    dir0          \* history: OUTPUT_DIR as it was when the program started

vars == <<pc, mode, start_id, end_id, chunk_num, start, tasks, sem_value,
          sem_waiters, completed, results, chunk_bar, global_bar, requests,
          chunks_dir, cwd, pending_exc, chunks, written, dir0>>

FINAL == "top_scratch_projects.csv"

NoTask == [st |-> "none", exc |-> "none", value |-> None]

\* a task that has been created and has not finished
Active(pid) == tasks[pid].st \in {"scheduled", "waiting", "woken", "inflight"}

\* a task that holds a slot of the semaphore
Holding(pid) == tasks[pid].st \in {"woken", "inflight"}

\* an artifact a former run may have left in OUTPUT_DIR
StaleChunk == (MaxId + CHUNK_SIZE - 1) \div CHUNK_SIZE

StaleRows == <<ToRow([ID |-> MaxId + 1, Title |-> "title", Creator |-> "username",
                      Views |-> 50])>>

(***************************************************************************)
(* The state once the module has been imported: the semaphore is full,     *)
(* OUTPUT_DIR exists (os.makedirs(..., exist_ok=True) keeps what it held). *)
(***************************************************************************)
Init ==
    /\ pc = "main"
    /\ mode = "none"
    /\ start_id = 0
    /\ end_id = 0
    /\ chunk_num = 0
    /\ start = 0
    /\ tasks = [pid \in IDs |-> NoTask]
    /\ sem_value = SemCapacity
    /\ sem_waiters = <<>>
    /\ completed = <<>>
    /\ results = <<>>
    /\ chunk_bar = 0
    /\ global_bar = 0
    /\ requests = [pid \in IDs |-> 0]
    /\ chunks_dir \in {<<>>, FileName(StaleChunk) :> StaleRows}
    /\ cwd = <<>>
    /\ pending_exc = "none"
    /\ chunks = <<>>
    /\ written = <<>>
    /\ dir0 = chunks_dir

(***************************************************************************)
(* Input.  input() returns text; int() parses it or raises ValueError.     *)
(***************************************************************************)
NotANumber == <<120>>

\* what may be typed at the second prompt: an ID, or no number
InputTexts == {Str(n) : n \in IDs} \cup {NotANumber}

\* what may be typed at the first prompt: one of the two lowest IDs, or no
\* number (a range that starts higher is a shorter range moved up)
FirstTexts == {Str(1), Str(2), NotANumber}

IsInteger(text) == \A i \in 1..Len(text) : text[i] \in 48..57

\* a test that sends a range of exactly CHUNK_SIZE IDs to run_chunks
IsChunked_AtChunkSize(first, last) == last - first + 1 >= CHUNK_SIZE

\* the test of the entry point that sends a range to run_chunks
IsChunked(first, last) == last - first > CHUNK_SIZE

\* tasks = [asyncio.create_task(fetch(session, pid)) for pid in range(lo, hi + 1)]
CreateTasks(lo, hi) ==
    [pid \in IDs |-> IF pid \in lo..hi
                     THEN [st |-> "scheduled", exc |-> "none", value |-> None]
                     ELSE tasks[pid]]

\* the chunk's end without the cap at end_id
ChunkEnd_Uncapped(s) == s + CHUNK_SIZE - 1

\* end = min(start + CHUNK_SIZE - 1, end_id)
ChunkEnd(s) == Min(s + CHUNK_SIZE - 1, end_id)

\* the parameters of the crawl_projects call that is running
CrawlStart == IF mode = "chunks" THEN start ELSE start_id

CrawlEnd == IF mode = "chunks" THEN ChunkEnd(start) ELSE end_id

\* len(tasks)
CrawlTotal == Max(CrawlEnd - CrawlStart + 1, 0)

OutputFile == IF mode = "chunks" THEN [dir |-> "chunks", num |-> chunk_num]
              ELSE [dir |-> ".", num |-> 0]

(***************************************************************************)
(* The entry point up to the first suspension: both inputs are read and    *)
(* parsed, and either run_chunks enters its loop or the single crawl       *)
(* creates its tasks.                                                      *)
(***************************************************************************)
Main(text1, text2) ==
    /\ pc = "main"
    /\ IF ~IsInteger(text1) \/ ~IsInteger(text2)
       THEN /\ pc' = "value_error"
            /\ UNCHANGED <<mode, start_id, end_id, chunk_num, start, tasks>>
       ELSE /\ start_id' = ParseInt(text1)
            /\ end_id' = ParseInt(text2)
            /\ IF IsChunked(start_id', end_id')
               THEN /\ mode' = "chunks"
                    /\ pc' = "run_chunks"
                    /\ chunk_num' = 1
                    /\ start' = start_id'
                    /\ UNCHANGED tasks
               ELSE /\ mode' = "single"
                    /\ pc' = "crawl"
                    /\ tasks' = CreateTasks(start_id', end_id')
                    /\ UNCHANGED <<chunk_num, start>>
    /\ UNCHANGED <<sem_value, sem_waiters, completed, results, chunk_bar, global_bar,
                   requests, chunks_dir, cwd, pending_exc, chunks, written, dir0>>

(***************************************************************************)
(* run_chunks at the head of its loop: the next chunk's crawl is called    *)
(* and creates its tasks, or the loop is over and run_chunks returns.      *)
(***************************************************************************)
ChunkNext ==
    /\ pc = "run_chunks"
    /\ IF start <= end_id
       THEN /\ pc' = "crawl"
            /\ tasks' = CreateTasks(start, ChunkEnd(start))
            /\ chunks' = Append(chunks, <<start, ChunkEnd(start)>>)
            /\ results' = <<>>
            /\ chunk_bar' = 0
       ELSE /\ pc' = "merge"
            /\ UNCHANGED <<tasks, chunks, results, chunk_bar>>
    /\ UNCHANGED <<mode, start_id, end_id, chunk_num, start, sem_value, sem_waiters,
                   completed, global_bar, requests, chunks_dir, cwd, pending_exc,
                   written, dir0>>

(***************************************************************************)
(* The semaphore.  acquire takes a slot when one is free and nobody waits, *)
(* and queues the task otherwise; release hands the slot to the oldest     *)
(* waiter, or frees it.                                                    *)
(***************************************************************************)
\* acquire that never blocks
SemLocked_Never == FALSE

SemLocked == sem_value = 0 \/ sem_waiters # <<>>

\* a release that takes the oldest waiter off the queue without waking it
ReleasedTasks_NoWake(pid, ended) == [tasks EXCEPT ![pid] = ended]

\* the tasks after a release by pid, which ends as `ended`
ReleasedTasks(pid, ended) ==
    [q \in IDs |-> IF q = pid THEN ended
                   ELSE IF sem_waiters # <<>> /\ q = Head(sem_waiters)
                        THEN [tasks[q] EXCEPT !.st = "woken"]
                        ELSE tasks[q]]

\* a release that is skipped when the task ends without a record
Release_OnSuccessOnly(pid, ended) ==
    /\ tasks' = [tasks EXCEPT ![pid] = ended]
    /\ IF ended.value = None
       THEN UNCHANGED <<sem_value, sem_waiters>>
       ELSE sem_value' = sem_value + 1 /\ UNCHANGED sem_waiters

Release(pid, ended) ==
    /\ tasks' = ReleasedTasks(pid, ended)
    /\ IF sem_waiters # <<>>
       THEN sem_waiters' = Tail(sem_waiters) /\ UNCHANGED sem_value
       ELSE sem_value' = sem_value + 1 /\ UNCHANGED sem_waiters

\* the event loop runs the first step of the tasks in the order of creation
NextToStart(pid) == \A q \in IDs : tasks[q].st = "scheduled" => pid <= q

(***************************************************************************)
(* fetch, first step: `async with semaphore`, and with the slot the GET.   *)
(***************************************************************************)
FetchStart(pid) ==
    /\ pc = "crawl"
    /\ tasks[pid].st = "scheduled"
    /\ NextToStart(pid)
    /\ IF SemLocked
       THEN /\ sem_waiters' = Append(sem_waiters, pid)
            /\ tasks' = [tasks EXCEPT ![pid].st = "waiting"]
            /\ UNCHANGED <<sem_value, requests>>
       ELSE /\ sem_value' = sem_value - 1
            /\ tasks' = [tasks EXCEPT ![pid].st = "inflight"]
            /\ requests' = [requests EXCEPT ![pid] = @ + 1]
            /\ UNCHANGED sem_waiters
    /\ UNCHANGED <<pc, mode, start_id, end_id, chunk_num, start, completed, results,
                   chunk_bar, global_bar, chunks_dir, cwd, pending_exc, chunks,
                   written, dir0>>

\* fetch resumes in acquire with the slot a release handed it, and issues the GET
FetchResume(pid) ==
    /\ pc = "crawl"
    /\ tasks[pid].st = "woken"
    /\ tasks' = [tasks EXCEPT ![pid].st = "inflight"]
    /\ requests' = [requests EXCEPT ![pid] = @ + 1]
    /\ UNCHANGED <<pc, mode, start_id, end_id, chunk_num, start, sem_value, sem_waiters,
                   completed, results, chunk_bar, global_bar, chunks_dir, cwd,
                   pending_exc, chunks, written, dir0>>

\* the task as it ends on response resp
Ended(pid, resp) ==
    [st |-> "done", exc |-> FetchBody(pid, resp).exc, value |-> FetchBody(pid, resp).value]

(***************************************************************************)
(* fetch, last step: the request resolves (a response, an error or the     *)
(* timeout), the body runs to its return, `async with` releases the slot.  *)
(***************************************************************************)
FetchRespond(pid, resp) ==
    /\ pc = "crawl"
    /\ tasks[pid].st = "inflight"
    /\ Release(pid, Ended(pid, resp))
    /\ completed' = Append(completed, pid)
    /\ UNCHANGED <<pc, mode, start_id, end_id, chunk_num, start, results, chunk_bar,
                   global_bar, requests, chunks_dir, cwd, pending_exc, chunks,
                   written, dir0>>

(***************************************************************************)
(* crawl_projects, one turn of `for task in asyncio.as_completed(tasks)`:  *)
(* the oldest finished task is awaited.  An exception of the task would    *)
(* propagate out of crawl_projects and asyncio.run.                        *)
(***************************************************************************)
\* `if result:`
Truthy(value) == value # None

\* a loop that updates the bars inside `if result:`
Collect_TickOnPresent ==
    /\ pc = "crawl"
    /\ completed # <<>>
    /\ LET pid == Head(completed) IN
       /\ completed' = Tail(completed)
       /\ tasks' = [tasks EXCEPT ![pid].st = "collected"]
       /\ IF tasks[pid].exc # "none"
          THEN /\ pc' = "cancelling"
               /\ pending_exc' = tasks[pid].exc
               /\ UNCHANGED <<results, chunk_bar, global_bar>>
          ELSE /\ IF Truthy(tasks[pid].value)
                  THEN /\ results' = Append(results, TheValue(tasks[pid].value))
                       /\ chunk_bar' = chunk_bar + 1
                       /\ global_bar' = IF mode = "chunks" THEN global_bar + 1
                                        ELSE global_bar
                  ELSE UNCHANGED <<results, chunk_bar, global_bar>>
               /\ UNCHANGED <<pc, pending_exc>>
    /\ UNCHANGED <<mode, start_id, end_id, chunk_num, start, sem_value, sem_waiters,
                   requests, chunks_dir, cwd, chunks, written, dir0>>

Collect ==
    /\ pc = "crawl"
    /\ completed # <<>>
    /\ LET pid == Head(completed) IN
       /\ completed' = Tail(completed)
       /\ tasks' = [tasks EXCEPT ![pid].st = "collected"]
       /\ IF tasks[pid].exc # "none"
          THEN /\ pc' = "cancelling"
               /\ pending_exc' = tasks[pid].exc
               /\ UNCHANGED <<results, chunk_bar, global_bar>>
          ELSE /\ results' = IF Truthy(tasks[pid].value)
                             THEN Append(results, TheValue(tasks[pid].value))
                             ELSE results
               /\ chunk_bar' = chunk_bar + 1
               /\ global_bar' = IF mode = "chunks" THEN global_bar + 1 ELSE global_bar
               /\ UNCHANGED <<pc, pending_exc>>
    /\ UNCHANGED <<mode, start_id, end_id, chunk_num, start, sem_value, sem_waiters,
                   requests, chunks_dir, cwd, chunks, written, dir0>>

\* a loop that ends with the first task that completes
LoopDone_FirstCompleted ==
    \/ CrawlTotal = 0
    \/ \E pid \in CrawlStart..CrawlEnd : tasks[pid].st = "collected"

\* the as_completed loop has yielded every task of the crawl
LoopDone == \A pid \in CrawlStart..CrawlEnd : tasks[pid].st = "collected"

\* the file written from the results as they were collected, not ranked
CrawlRows_Unranked == ToRows(Truncate(results, TOP_N))

\* what crawl_projects writes to its output file
CrawlRows == ToRows(RankRecords(results, TOP_N))

(***************************************************************************)
(* crawl_projects after the loop: the session is closed, the results are   *)
(* sorted and the top rows written to output_file; the call returns, in    *)
(* run_chunks to the end of the loop body.                                 *)
(***************************************************************************)
CrawlFinish ==
    /\ pc = "crawl"
    /\ LoopDone
    /\ written' = Append(written, OutputFile)
    /\ IF mode = "chunks"
       THEN /\ chunks_dir' = (FileName(chunk_num) :> CrawlRows) @@ chunks_dir
            /\ chunk_num' = chunk_num + 1
            /\ start' = start + CHUNK_SIZE
            /\ pc' = "run_chunks"
            /\ UNCHANGED cwd
       ELSE /\ cwd' = (FINAL :> CrawlRows) @@ cwd
            /\ pc' = "done"
            /\ UNCHANGED <<chunks_dir, chunk_num, start>>
    /\ UNCHANGED <<mode, start_id, end_id, tasks, sem_value, sem_waiters, completed,
                   results, chunk_bar, global_bar, requests, pending_exc, chunks, dir0>>

(***************************************************************************)
(* merge_chunks: every file of OUTPUT_DIR, in the sorted order of the      *)
(* names, is read back; the rows are sorted by int(Views) and the top rows *)
(* written to the final file.                                              *)
(***************************************************************************)
\* a loop over the directory that is left after its first file
ReadAll_FirstOnly(dir, names) == IF names = <<>> THEN <<>> ELSE dir[Head(names)]

RECURSIVE ReadAll(_, _)
ReadAll(dir, names) ==
    IF names = <<>> THEN <<>> ELSE dir[Head(names)] \o ReadAll(dir, Tail(names))

\* all_projects once the loop over the directory is over
AllProjects(dir) == ReadAll(dir, Sorted(DOMAIN dir))

MergeRows(dir) == RankRows(AllProjects(dir), TOP_N)

\* a merge that writes its ranking over the first artifact
MergeChunks_OverFirst ==
    /\ pc = "merge"
    /\ chunks_dir' = (FileName(1) :> MergeRows(chunks_dir)) @@ chunks_dir
    /\ written' = Append(written, [dir |-> "chunks", num |-> 1])
    /\ pc' = "done"
    /\ UNCHANGED <<mode, start_id, end_id, chunk_num, start, tasks, sem_value,
                   sem_waiters, completed, results, chunk_bar, global_bar, requests,
                   cwd, pending_exc, chunks, dir0>>

MergeChunks ==
    /\ pc = "merge"
    /\ cwd' = (FINAL :> MergeRows(chunks_dir)) @@ cwd
    /\ written' = Append(written, [dir |-> ".", num |-> 0])
    /\ pc' = "done"
    /\ UNCHANGED <<mode, start_id, end_id, chunk_num, start, tasks, sem_value,
                   sem_waiters, completed, results, chunk_bar, global_bar, requests,
                   chunks_dir, pending_exc, chunks, dir0>>

(***************************************************************************)
(* KeyboardInterrupt while asyncio.run is running.  asyncio.run answers    *)
(* SIGINT by cancelling the main task, so the interrupt takes effect where *)
(* the main coroutine is suspended (in the as_completed loop), never in    *)
(* the middle of the synchronous sort and write; asyncio.run then cancels  *)
(* every task that has not finished and raises KeyboardInterrupt into the  *)
(* `except` of the entry point.  The head of the loop of run_chunks is     *)
(* kept as a second place an interrupt may take effect (between chunks).   *)
(***************************************************************************)
Interrupt ==
    /\ pc \in {"crawl", "run_chunks"}
    /\ pc' = "cancelling"
    /\ pending_exc' = "KeyboardInterrupt"
    /\ UNCHANGED <<mode, start_id, end_id, chunk_num, start, tasks, sem_value,
                   sem_waiters, completed, results, chunk_bar, global_bar, requests,
                   chunks_dir, cwd, chunks, written, dir0>>

Cancelled == [st |-> "cancelled", exc |-> "CancelledError", value |-> None]

Without(s, x) == SelectSeq(s, LAMBDA y : y # x)

\* CancelledError reaches one task: it leaves `async with semaphore` if it is
\* inside, and the queue of the semaphore if it waits there
CancelTask(pid) ==
    /\ pc = "cancelling"
    /\ Active(pid)
    /\ IF Holding(pid)
       THEN Release(pid, Cancelled)
       ELSE /\ tasks' = [tasks EXCEPT ![pid] = Cancelled]
            /\ sem_waiters' = Without(sem_waiters, pid)
            /\ UNCHANGED sem_value
    /\ UNCHANGED <<pc, mode, start_id, end_id, chunk_num, start, completed, results,
                   chunk_bar, global_bar, requests, chunks_dir, cwd, pending_exc,
                   chunks, written, dir0>>

\* an entry point whose `except` does not name KeyboardInterrupt
CancelDone_Uncaught ==
    /\ pc = "cancelling"
    /\ \A pid \in IDs : ~Active(pid)
    /\ pc' = "crashed"
    /\ UNCHANGED <<mode, start_id, end_id, chunk_num, start, tasks, sem_value,
                   sem_waiters, completed, results, chunk_bar, global_bar, requests,
                   chunks_dir, cwd, pending_exc, chunks, written, dir0>>

\* asyncio.run raises: KeyboardInterrupt is handled by the entry point
\* ("Crawl interrupted."), anything else is a traceback
CancelDone ==
    /\ pc = "cancelling"
    /\ \A pid \in IDs : ~Active(pid)
    /\ pc' = IF pending_exc = "KeyboardInterrupt" THEN "interrupted" ELSE "crashed"
    /\ UNCHANGED <<mode, start_id, end_id, chunk_num, start, tasks, sem_value,
                   sem_waiters, completed, results, chunk_bar, global_bar, requests,
                   chunks_dir, cwd, pending_exc, chunks, written, dir0>>

Next ==
    \/ \E text1 \in FirstTexts, text2 \in InputTexts : Main(text1, text2)
    \/ ChunkNext
    \/ \E pid \in IDs : FetchStart(pid)
    \/ \E pid \in IDs : FetchResume(pid)
    \/ \E pid \in IDs, resp \in Responses : FetchRespond(pid, resp)
    \/ Collect
    \/ CrawlFinish
    \/ MergeChunks
    \/ Interrupt
    \/ \E pid \in IDs : CancelTask(pid)
    \/ CancelDone

Spec == Init /\ [][Next]_vars

(***************************************************************************)
(* Properties.                                                             *)
(***************************************************************************)
Holders == {pid \in IDs : Holding(pid)}

\* C1: at every moment of a crawl at most SemCapacity fetch tasks hold a slot
\* of the semaphore, and a fetch task issues its request only while it holds
\* a slot it has acquired: a task that has not got past acquire has issued no
\* request, and the step that issues a request is taken by a task that either
\* takes a free slot in that step or was handed one before.
C1_Admission ==
    /\ [](/\ Cardinality(Holders) <= SemCapacity
          /\ \A pid \in IDs :
                tasks[pid].st \in {"none", "scheduled", "waiting", "woken"}
                    => requests[pid] = 0)
    /\ [][\A pid \in IDs :
            requests'[pid] # requests[pid]
                => /\ tasks'[pid].st = "inflight"
                   /\ \/ tasks[pid].st = "woken"
                      \/ sem_value > 0 /\ sem_value' = sem_value - 1]_vars

\* every slot is taken while another task waits for one
C1_Witness ==
    /\ Cardinality(Holders) = SemCapacity
    /\ sem_waiters # <<>>
    /\ \E pid \in IDs : tasks[pid].st = "inflight" /\ requests[pid] = 1

\* C2: whenever no fetch task is running, every slot of the semaphore is free
\* and nobody waits for one, whatever way the tasks ended (a record, a status
\* other than 200, an exception, the timeout, a malformed payload, or
\* cancellation).
C2_NoLeak ==
    (\A pid \in IDs : ~Active(pid)) => sem_value = SemCapacity /\ sem_waiters = <<>>

\* an interrupted run: one task was cancelled with its request in flight,
\* another had ended without a record
C2_Witness ==
    /\ pc = "interrupted"
    /\ \E pid \in IDs : tasks[pid].st = "cancelled" /\ requests[pid] = 1
    /\ \E pid \in IDs : tasks[pid].st \in {"done", "collected"} /\ tasks[pid].value = None
    /\ \A pid \in IDs : ~Active(pid)

\* the responses the claim calls erroring or malformed
BadResponse(resp) ==
    \/ resp.exc # "none"
    \/ resp.status # 200
    \/ ~resp.data.has_title
    \/ ~resp.data.has_username
    \/ resp.data.views = None

\* C3: on a transport exception, a timeout, a status other than success or a
\* payload without title, author.username or stats.views, fetch returns None
\* and raises nothing; the other tasks' outcomes are left as they were, and no
\* crawl is ever aborted by an exception of a fetch.
C3_FetchAbsent ==
    /\ [][\A pid \in IDs, resp \in Responses :
            FetchRespond(pid, resp) /\ BadResponse(resp)
                => /\ tasks'[pid].exc = "none"
                   /\ tasks'[pid].value = None
                   /\ \A q \in IDs \ {pid} :
                        /\ tasks'[q].exc = tasks[q].exc
                        /\ tasks'[q].value = tasks[q].value]_vars
    /\ [](pc # "crashed" /\ \A pid \in IDs : tasks[pid].exc \in {"none", "CancelledError"})

\* a crawl that completed with one fetch Absent and another Present
C3_Witness ==
    /\ pc = "done"
    /\ \E pid, q \in IDs :
         /\ tasks[pid].st = "collected" /\ tasks[pid].value = None
         /\ tasks[q].st = "collected" /\ tasks[q].value # None
         /\ pid < q

\* the fetch outcomes of the crawl that is running, in ID order
Present(lo, hi) == {pid \in lo..hi : pid \in IDs /\ tasks[pid].value # None}

NoDuplicates(s) == \A i, j \in 1..Len(s) : i # j => s[i] # s[j]

\* the orders in which the records of a set can be collected
Orders(S) == {s \in [1..Cardinality(S) -> S] : NoDuplicates(s)}

ExampleRecord(id, views) ==
    [ID |-> id, Title |-> "title", Creator |-> "username", Views |-> views]

\* the example of C4, for every order of collection
ExampleHolds ==
    \A s \in Orders({ExampleRecord(1, 10), ExampleRecord(3, 50), ExampleRecord(5, 30)}) :
        RankRecords(s, 2) = <<ExampleRecord(3, 50), ExampleRecord(5, 30)>>

\* C4: a crawl issues exactly one request for each ID of its range and none
\* for any other ID, never a second one; when its loop is over the result
\* collection holds exactly the records of the IDs whose fetch was Present,
\* each once, each with the ID that was requested.  The example: the records
\* of IDs 1, 3, 5 with Views 10, 50, 30, collected in any order and ranked
\* with limit 2, give ID 3 then ID 5.
C4_OneRequestPerID ==
    /\ \A pid \in IDs :
         /\ requests[pid] <= 1
         /\ tasks[pid].st \in {"inflight", "done", "collected"} => requests[pid] = 1
         /\ pid \notin start_id..end_id => requests[pid] = 0
         /\ tasks[pid].value # None => TheValue(tasks[pid].value).ID = pid
    /\ pc = "crawl" /\ LoopDone =>
         /\ \A pid \in CrawlStart..CrawlEnd : requests[pid] = 1
         /\ NoDuplicates(results)
         /\ Len(results) = Cardinality(Present(CrawlStart, CrawlEnd))
         /\ Range(results) = {TheValue(tasks[pid].value) : pid \in Present(CrawlStart, CrawlEnd)}
    /\ ExampleHolds

\* a crawl whose loop is over with one ID Absent and two Present, collected
\* against the order of the IDs
C4_Witness ==
    /\ pc = "crawl" /\ LoopDone
    /\ Len(results) = 2
    /\ results[1].ID > results[2].ID
    /\ \E pid \in CrawlStart..CrawlEnd : tasks[pid].value = None

ChunkLen(c) == c[2] - c[1] + 1

\* ceil(n / d)
CeilDiv(n, d) == (n + d - 1) \div d

\* C5: the chunks run_chunks generates over [start_id, end_id] start at
\* start_id, follow each other without gap or overlap in increasing order,
\* are never empty nor longer than CHUNK_SIZE, and only the last may be
\* shorter; when the loop is over they end at end_id and their number is
\* ceil((end_id - start_id + 1) / CHUNK_SIZE).
C5_Partition ==
    /\ \A i \in 1..Len(chunks) :
         /\ chunks[i][1] = (IF i = 1 THEN start_id ELSE chunks[i - 1][2] + 1)
         /\ ChunkLen(chunks[i]) >= 1
         /\ ChunkLen(chunks[i]) <= CHUNK_SIZE
         /\ i < Len(chunks) => ChunkLen(chunks[i]) = CHUNK_SIZE
         /\ chunks[i][2] <= end_id
    /\ mode = "chunks" /\ pc \in {"merge", "done"} =>
         /\ Len(chunks) = CeilDiv(end_id - start_id + 1, CHUNK_SIZE)
         /\ chunks[Len(chunks)][2] = end_id
         /\ \A pid \in start_id..end_id :
              Cardinality({i \in 1..Len(chunks) : pid \in chunks[i][1]..chunks[i][2]}) = 1

\* a finished partition whose last chunk is shorter than the others
C5_Witness ==
    /\ mode = "chunks"
    /\ pc = "merge"
    /\ Len(chunks) >= 2
    /\ ChunkLen(chunks[Len(chunks)]) < CHUNK_SIZE

\* the chunk (its index in `chunks`) a task belongs to; 0 in a single crawl
ChunkOf(pid) ==
    IF \E i \in 1..Len(chunks) : pid \in chunks[i][1]..chunks[i][2]
    THEN CHOOSE i \in 1..Len(chunks) : pid \in chunks[i][1]..chunks[i][2]
    ELSE 0

Artifact(i) == [dir |-> "chunks", num |-> i]

\* a fetch that is scheduled, waiting, in flight, or finished and not yet collected
Unresolved(pid) == Active(pid) \/ tasks[pid].st = "done"

\* C6: in a chunked run a fetch of a chunk exists only once the artifact of
\* every earlier chunk has been written, and the fetches that are scheduled
\* or in flight at one time all belong to one chunk.
C6_Serialized ==
    mode = "chunks" =>
        /\ \A pid \in IDs :
             tasks[pid].st # "none" =>
                \A j \in 1..(ChunkOf(pid) - 1) :
                    /\ Artifact(j) \in Range(written)
                    /\ FileName(j) \in DOMAIN chunks_dir
        /\ \A pid, q \in IDs : Unresolved(pid) /\ Unresolved(q) => ChunkOf(pid) = ChunkOf(q)

\* the second chunk's fetches in flight, the first chunk's artifact on disk
C6_Witness ==
    /\ mode = "chunks"
    /\ Len(chunks) = 2
    /\ \E pid \in IDs : ChunkOf(pid) = 2 /\ tasks[pid].st = "inflight"
    /\ Artifact(1) \in Range(written)

\* the run was interrupted while crawl_projects was running for chunk chunk_num
InterruptedInChunk ==
    /\ mode = "chunks"
    /\ pending_exc = "KeyboardInterrupt"
    /\ Len(chunks) = chunk_num

InvalidInput == pc = "value_error" \/ (mode # "none" /\ start_id > end_id)

\* C8: on invalid range input no crawl takes place: no request is issued, no
\* file is written or overwritten, and the program does not end as a
\* completed crawl.
C8_InvalidRange ==
    InvalidInput =>
        /\ \A pid \in IDs : requests[pid] = 0
        /\ written = <<>>
        /\ cwd = <<>>
        /\ chunks_dir = dir0
        /\ pc # "done"

Count(s, x) == Cardinality({i \in 1..Len(s) : s[i] = x})

Limits == 0..(MaxId + 1)

\* what C9 says of one ranking: `ranked` is `input` ranked with `limit`,
\* `again` is `ranked` ranked with `limit`, keys are the Views of `ranked`
Ranked(input, limit, ranked, keys, again) ==
    /\ Len(ranked) = Min(Len(input), limit)
    /\ \A i, j \in 1..Len(ranked) : i < j => keys[i] >= keys[j]
    /\ \A i \in 1..Len(ranked) : Count(ranked, ranked[i]) <= Count(input, ranked[i])
    /\ again = ranked

\* C9: ranking (sort by Views descending, cut to the limit), of the result
\* collection crawl_projects is about to rank and of the rows merge_chunks
\* is about to rank, gives min(len, limit) elements in non-increasing
\* order of Views, each taken from the input no more often than it is there,
\* and ranking the outcome again changes nothing; for every limit.
C9_Rank ==
    \A limit \in Limits :
        /\ pc = "crawl" /\ LoopDone =>
             LET r == RankRecords(results, limit)
             IN  Ranked(results, limit, r, [i \in 1..Len(r) |-> r[i].Views],
                        RankRecords(r, limit))
        /\ pc = "merge" =>
             LET rows == AllProjects(chunks_dir)
                 r == RankRows(rows, limit)
             IN  Ranked(rows, limit, r, [i \in 1..Len(r) |-> ParseInt(r[i].Views)],
                        RankRows(r, limit))

\* more results than TOP_N, collected against the order of their Views, and
\* more rows on disk than TOP_N, read back against the order of theirs
C9_Witness ==
    /\ pc = "crawl" /\ LoopDone
    /\ Len(results) > TOP_N
    /\ \E i, j \in 1..Len(results) : i < j /\ results[i].Views < results[j].Views
    /\ LET rows == AllProjects(chunks_dir)
       IN  /\ Len(rows) > TOP_N
           /\ \E i, j \in 1..Len(rows) :
                i < j /\ ParseInt(rows[i].Views) < ParseInt(rows[j].Views)

\* the records of the IDs lo..hi whose fetch was Present, in ID order
RECURSIVE PresentRecords(_, _)
PresentRecords(lo, hi) ==
    IF lo > hi THEN <<>>
    ELSE (IF tasks[lo].value # None THEN <<TheValue(tasks[lo].value)>> ELSE <<>>)
         \o PresentRecords(lo + 1, hi)

RowViewsOf(rows) == [i \in 1..Len(rows) |-> ParseInt(rows[i].Views)]

RecordViewsOf(recs) == [i \in 1..Len(recs) |-> recs[i].Views]

CompletedChunkedRun == pc = "done" /\ mode = "chunks" /\ dir0 = <<>>

\* C10: after a completed chunked run that found OUTPUT_DIR empty, the Views
\* of the final leaderboard are, in number and in order, the Views of all
\* Present records of the whole range ranked at once with TOP_N.
C10_TwoStage ==
    CompletedChunkedRun =>
        RowViewsOf(cwd[FINAL]) =
            RecordViewsOf(RankRecords(PresentRecords(start_id, end_id), TOP_N))

\* a completed run with more Present records than TOP_N, of which a chunk
\* dropped one when it ranked its own results, and whose best record is not
\* in the first chunk
C10_Witness ==
    /\ CompletedChunkedRun
    /\ Len(PresentRecords(start_id, end_id)) > TOP_N
    /\ Len(cwd[FINAL]) = TOP_N
    /\ \E i \in 1..Len(chunks) :
         Len(PresentRecords(chunks[i][1], chunks[i][2])) > TOP_N
    /\ \E pid \in chunks[1][1]..chunks[1][2] :
         tasks[pid].value # None /\ TheValue(tasks[pid].value).Views < ParseInt(cwd[FINAL][1].Views)

\* the leaderboard merge_chunks computes when the directory is enumerated in
\* the order `names`
MergeIn(dir, names) == RankRows(ReadAll(dir, names), TOP_N)

\* the states in which OUTPUT_DIR has just been found or changed, or is about
\* to be merged
AtChunkBoundary == pc \in {"run_chunks", "merge"}

\* C11 as stated: whatever the order in which the artifacts are enumerated,
\* the merge gives the leaderboard it gives in sorted order, row for row.
C11_OrderInsensitive ==
    AtChunkBoundary =>
        \A names \in Orders(DOMAIN chunks_dir) :
            MergeIn(chunks_dir, names) = MergeRows(chunks_dir)

\* C11 as amended: whatever the order in which the artifacts are enumerated,
\* the merge gives a leaderboard of the same length with the same Views, place
\* for place; which of several rows of equal Views it holds depends on the
\* order.
C11_OrderInsensitiveViews ==
    AtChunkBoundary =>
        \A names \in Orders(DOMAIN chunks_dir) :
            RowViewsOf(MergeIn(chunks_dir, names)) = RowViewsOf(MergeRows(chunks_dir))

\* a directory about to be merged whose leaderboard depends on the order of
\* enumeration: two artifacts tie on Views
C11_Witness ==
    /\ pc = "merge"
    /\ Cardinality(DOMAIN chunks_dir) >= 2
    /\ \E names \in Orders(DOMAIN chunks_dir) :
         MergeIn(chunks_dir, names) # MergeRows(chunks_dir)

(***************************************************************************)
(* merge_chunks on its own, called on a directory that holds any part of   *)
(* the artifacts a chunked run over 1..MaxId writes: what an interrupted   *)
(* run leaves, or what is left once artifacts have been removed.           *)
(***************************************************************************)
\* the number of chunks of the range 1..MaxId
NumChunks == (MaxId + CHUNK_SIZE - 1) \div CHUNK_SIZE

\* the IDs of chunk i of the range 1..MaxId
ChunkIDs(i) == ((i - 1) * CHUNK_SIZE + 1)..Min(i * CHUNK_SIZE, MaxId)

\* the result collections a crawl over `ids` can end with, as sets
RecordSets(ids) ==
    {R \in SUBSET [ID : ids, Title : {"title"}, Creator : {"username"}, Views : ViewsDom] :
        \A a, b \in R : a.ID = b.ID => a = b}

\* the artifacts crawl_projects can write for a chunk of `ids`
ArtifactsOf(ids) ==
    UNION {{ToRows(RankRecords(s, TOP_N)) : s \in Orders(R)} : R \in RecordSets(ids)}

AllArtifacts == UNION {ArtifactsOf(ChunkIDs(i)) : i \in 1..NumChunks}

\* the directories that hold the artifacts of some of the chunks
PartialDirs ==
    UNION {{dir \in [{FileName(i) : i \in S} -> AllArtifacts] :
                \A i \in S : dir[FileName(i)] \in ArtifactsOf(ChunkIDs(i))} :
           S \in SUBSET (1..NumChunks)}

InitMerge ==
    /\ pc = "merge"
    /\ mode = "chunks"
    /\ start_id = 1
    /\ end_id = MaxId
    /\ chunk_num = NumChunks + 1
    /\ start = 1 + NumChunks * CHUNK_SIZE
    /\ tasks = [pid \in IDs |-> NoTask]
    /\ sem_value = SemCapacity
    /\ sem_waiters = <<>>
    /\ completed = <<>>
    /\ results = <<>>
    /\ chunk_bar = 0
    /\ global_bar = 0
    /\ requests = [pid \in IDs |-> 0]
    /\ chunks_dir \in PartialDirs
    /\ cwd = <<>>
    /\ pending_exc = "none"
    /\ chunks = <<>>
    /\ written = <<>>
    /\ dir0 = chunks_dir

NextMerge == MergeChunks

\* merge_chunks is straight-line code: once called it runs to its return.
\* MergeReturns is the step of MergeChunks seen through pc alone: MergeChunks
\* is enabled exactly when pc = "merge", each of its steps takes pc to "done",
\* and no other action leaves "merge" that way, so WF_pc(MergeReturns) is
\* weak fairness of MergeChunks.
MergeReturns == pc = "merge" /\ pc' = "done"

SpecMerge == InitMerge /\ [][NextMerge]_vars /\ WF_pc(MergeReturns)

\* the rows of all files of a directory, as a set, and their number
RowsIn(dir) == UNION {Range(dir[n]) : n \in DOMAIN dir}

RECURSIVE RowCount(_, _)
RowCount(dir, names) ==
    IF names = {} THEN 0
    ELSE LET n == CHOOSE m \in names : TRUE
         IN  Len(dir[n]) + RowCount(dir, names \ {n})

\* `board` is a ranking, capped at `limit`, of the rows of `dir`: as many rows
\* as there are, up to the limit; each a row of the directory, none twice; in
\* non-increasing order of Views; and no row left out beats a row kept
IsRankingOf(board, dir, limit) ==
    /\ Len(board) = Min(RowCount(dir, DOMAIN dir), limit)
    /\ Range(board) \subseteq RowsIn(dir)
    /\ NoDuplicates(board)
    /\ \A i, j \in 1..Len(board) : i < j => RowViews(board[i]) >= RowViews(board[j])
    /\ \A row \in RowsIn(dir) \ Range(board) :
         \A i \in 1..Len(board) : RowViews(board[i]) >= RowViews(row)

\* C12: on a directory that holds any part of the expected artifacts (all,
\* some, none) merge_chunks runs to its end, and the file it writes is the
\* ranking, capped at TOP_N, of the rows of the artifacts that are there; it
\* changes no artifact.
C12_PartialMerge ==
    /\ <>(pc = "done")
    /\ [](pc = "done" =>
            /\ FINAL \in DOMAIN cwd
            /\ IsRankingOf(cwd[FINAL], chunks_dir, TOP_N)
            /\ chunks_dir = dir0)

\* merged with the artifact of one chunk missing and more rows than TOP_N in
\* the others
C12_Witness ==
    /\ pc = "done"
    /\ Cardinality(DOMAIN dir0) = NumChunks - 1
    /\ FileName(1) \notin DOMAIN dir0
    /\ RowCount(dir0, DOMAIN dir0) > TOP_N
    /\ Len(cwd[FINAL]) = TOP_N

(***************************************************************************)
(* The single-range bypass of the entry point.                             *)
(***************************************************************************)
\* the number of IDs of the range that was entered
RangeLength == end_id - start_id + 1

\* C13: when the range that was entered has at most CHUNK_SIZE IDs,
\* run_chunks and merge_chunks are never entered: one crawl is made, over
\* exactly the IDs of the range, no file of OUTPUT_DIR is written or changed,
\* and when the program is done the only file it wrote is the final file,
\* holding the leaderboard of that crawl.
C13_Bypass ==
    (mode # "none" /\ RangeLength <= CHUNK_SIZE) =>
        /\ mode = "single"
        /\ pc \notin {"run_chunks", "merge"}
        /\ chunks = <<>>
        /\ chunks_dir = dir0
        /\ \A pid \in IDs : tasks[pid].st # "none" <=> pid \in start_id..end_id
        /\ \A pid \in IDs : requests[pid] <= 1
        /\ \A i \in 1..Len(written) : written[i] = [dir |-> ".", num |-> 0]
        /\ pc # "done" => written = <<>> /\ cwd = <<>>
        /\ pc = "done" => /\ written = <<[dir |-> ".", num |-> 0]>>
                          /\ cwd = (FINAL :> ToRows(RankRecords(results, TOP_N)))
                          /\ \A pid \in start_id..end_id : requests[pid] = 1

\* a range of exactly CHUNK_SIZE IDs has been crawled in one piece, more
\* records than TOP_N were found, and the final file is written
C13_Witness ==
    /\ pc = "done"
    /\ RangeLength = CHUNK_SIZE
    /\ Len(results) > TOP_N
    /\ Len(cwd[FINAL]) = TOP_N
    /\ written = <<[dir |-> ".", num |-> 0]>>

(***************************************************************************)
(* The artifact of a chunk against the fetches of the chunk.               *)
(***************************************************************************)
\* the IDs of the i-th chunk run_chunks generated
IDsOfChunk(i) == chunks[i][1]..chunks[i][2]

\* the rows of the records the fetches of chunk i returned
ChunkRowSet(i) == {ToRow(TheValue(tasks[pid].value)) : pid \in Present(chunks[i][1], chunks[i][2])}

\* `board` is a complete ranked leaderboard of the set `rows`, cut at `limit`
IsLeaderboardOf(board, rows, limit) ==
    /\ Len(board) = Min(Cardinality(rows), limit)
    /\ Range(board) \subseteq rows
    /\ NoDuplicates(board)
    /\ \A i, j \in 1..Len(board) : i < j => RowViews(board[i]) >= RowViews(board[j])
    /\ \A row \in rows \ Range(board) :
         \A i \in 1..Len(board) : RowViews(board[i]) >= RowViews(row)

Persisted(i) == Artifact(i) \in Range(written)

\* C15: the chunks of a run have different artifact names; no file is written
\* twice in a run; an artifact that has been written keeps its content in
\* every later step, of the crawl of a later chunk and of merge_chunks, which
\* writes the final file outside OUTPUT_DIR; and a completed chunked run has
\* written the artifact of each of its chunks.
C15_WriteOnce ==
    /\ [](/\ \A i, j \in 1..(NumChunks + 1) : i # j => FileName(i) # FileName(j)
          /\ NoDuplicates(written)
          /\ (mode = "chunks" /\ pc = "done") =>
                 \A i \in 1..Len(chunks) : Persisted(i))
    /\ [][/\ \A i \in 1..(NumChunks + 1) :
               Persisted(i) => /\ Persisted(i)'
                               /\ FileName(i) \in DOMAIN chunks_dir'
                               /\ chunks_dir'[FileName(i)] = chunks_dir[FileName(i)]
          /\ pc = "merge" => /\ chunks_dir' = chunks_dir
                             /\ written' = Append(written, [dir |-> ".", num |-> 0])
                             /\ DOMAIN cwd' = {FINAL}]_vars

\* a chunked run of three chunks is done: three artifacts and the final file
\* have been written, in that order
C15_Witness ==
    /\ mode = "chunks"
    /\ pc = "done"
    /\ Len(chunks) = 3
    /\ written = <<Artifact(1), Artifact(2), Artifact(3), [dir |-> ".", num |-> 0]>>
    /\ FileName(3) \in DOMAIN dir0
    /\ chunks_dir[FileName(3)] # dir0[FileName(3)]

(***************************************************************************)
(* Progress.  chunk_bar and global_bar count the update(1) calls.          *)
(***************************************************************************)
\* the fetches among `ids` whose result (a record or None) the loop has taken
Ticked(ids) == {pid \in ids \cap IDs : tasks[pid].st = "collected" /\ tasks[pid].exc = "none"}

\* the fetch the loop takes in this step, as a set (empty in other steps)
Taken == {pid \in IDs : tasks[pid].st = "done" /\ tasks'[pid].st = "collected"
                        /\ tasks[pid].exc = "none"}

\* crawl_projects is running, or was when the interrupt arrived
InCrawl ==
    \/ pc = "crawl"
    \/ /\ pc \in {"cancelling", "interrupted"}
       /\ mode = "single" \/ Len(chunks) = chunk_num

\* C16: every fetch whose result the loop takes, a record or None, moves the
\* bar of its crawl by one, and in a chunked run the total bar by one, and
\* nothing else moves them (the bar of the crawl starts again at 0 with each
\* crawl); so the bar of a crawl counts the resolved fetches of the crawl,
\* the total bar the resolved fetches of all chunks so far, which is at most
\* end_id - start_id + 1 and is end_id - start_id + 1 when the run is done.
C16_Progress ==
    /\ [](/\ InCrawl => chunk_bar = Cardinality(Ticked(CrawlStart..CrawlEnd))
          /\ mode = "chunks" =>
                /\ global_bar = Cardinality(Ticked(IDs))
                /\ global_bar <= end_id - start_id + 1
                /\ pc = "done" => global_bar = end_id - start_id + 1
          /\ mode # "chunks" => global_bar = 0)
    /\ [][/\ \A pid \in Taken :
               /\ chunk_bar' = chunk_bar + 1
               /\ global_bar' = IF mode = "chunks" THEN global_bar + 1 ELSE global_bar
          /\ Taken = {} => /\ global_bar' = global_bar
                           /\ chunk_bar' = chunk_bar \/ (pc = "run_chunks" /\ chunk_bar' = 0)]_vars

\* a chunked run over the whole of 1..MaxId is done, with fetches that
\* returned a record and fetches that returned None: the total bar is full,
\* the bar of the last crawl holds the last chunk's count
C16_Witness ==
    /\ mode = "chunks"
    /\ pc = "done"
    /\ global_bar = MaxId
    /\ chunk_bar = Cardinality(IDsOfChunk(Len(chunks)))
    /\ \E pid \in IDs : tasks[pid].st = "collected" /\ tasks[pid].value = None
    /\ \E pid \in IDs : tasks[pid].st = "collected" /\ tasks[pid].value # None

(***************************************************************************)
(* Progress of a run that is not interrupted.  The event loop runs every   *)
(* task that is ready and the main coroutine whenever what it awaits is    *)
(* there (weak fairness of each step), and every request that was issued   *)
(* resolves, by a response, an error or the timeout of 10 s (weak fairness *)
(* of FetchRespond for each ID).                                           *)
(***************************************************************************)
NextLive ==
    \/ \E text1 \in FirstTexts, text2 \in InputTexts : Main(text1, text2)
    \/ ChunkNext
    \/ \E pid \in IDs : FetchStart(pid)
    \/ \E pid \in IDs : FetchResume(pid)
    \/ \E pid \in IDs, resp \in Responses : FetchRespond(pid, resp)
    \/ Collect
    \/ CrawlFinish
    \/ MergeChunks

\* the step of CrawlFinish seen through pc: CrawlFinish is enabled exactly
\* when pc = "crawl" and LoopDone, and without an interrupt it is the only
\* step that leaves "crawl"
CrawlReturns == pc = "crawl" /\ LoopDone /\ pc' \in {"run_chunks", "done"}

SpecLive ==
    /\ Init
    /\ [][NextLive]_vars
    /\ WF_vars(ChunkNext)
    /\ WF_vars(\E pid \in IDs : FetchStart(pid))
    /\ WF_vars(\E pid \in IDs : FetchResume(pid))
    /\ WF_vars(\E pid \in IDs, resp \in Responses : FetchRespond(pid, resp))
    /\ WF_vars(Collect)
    /\ WF_pc(CrawlReturns)
    /\ WF_pc(MergeReturns)

\* every chunk of the range has its artifact and the final file is written
AllPersisted ==
    /\ pc = "done"
    /\ Len(chunks) = CeilDiv(end_id - start_id + 1, CHUNK_SIZE)
    /\ \A i \in 1..Len(chunks) : Persisted(i) /\ FileName(i) \in DOMAIN chunks_dir
    /\ FINAL \in DOMAIN cwd

\* C17: in a run without interrupt, under the fairness of SpecLive: a fetch
\* that waits for a slot leaves the wait only by being handed one, and one
\* that was handed a slot only by issuing its request; every run that has
\* started ends done; and a run is done only when every fetch of its range
\* has issued its request and been collected, the final file is written
\* and, in a chunked run, every chunk has its artifact.  So no fetch waits
\* for ever and no crawl stays in its loop.
C17_Progress ==
    /\ [][\A pid \in IDs :
            /\ tasks[pid].st = "waiting" => tasks'[pid].st \in {"waiting", "woken"}
            /\ tasks[pid].st = "woken" => tasks'[pid].st \in {"woken", "inflight"}]_vars
    /\ (mode # "none") ~> (pc = "done")
    /\ [](pc = "done" =>
            /\ \A pid \in start_id..end_id :
                 tasks[pid].st = "collected" /\ requests[pid] = 1
            /\ FINAL \in DOMAIN cwd
            /\ sem_value = SemCapacity /\ sem_waiters = <<>>
            /\ mode = "chunks" => AllPersisted)

\* three fetches against two slots: two requests are in flight, the third
\* fetch waits in the queue of the semaphore
C17_Witness ==
    /\ pc = "crawl"
    /\ CrawlTotal > SemCapacity
    /\ sem_value = 0
    /\ Cardinality({pid \in IDs : tasks[pid].st = "inflight"}) = SemCapacity
    /\ \E pid \in IDs : tasks[pid].st = "waiting" /\ sem_waiters = <<pid>>

(***************************************************************************)
(* The size of a crawl.                                                    *)
(***************************************************************************)
\* the tasks that have been created and the records held by the running crawl
TasksHeld == Cardinality({pid \in IDs : tasks[pid].st # "none"} \cap CrawlStart..CrawlEnd)

\* C18: whenever crawl_projects runs on a valid range (start_id <= end_id),
\* called by run_chunks or by the entry point itself, it has been given at
\* most CHUNK_SIZE IDs and holds at most CHUNK_SIZE tasks and records.
C18_CrawlBound ==
    (pc = "crawl" /\ start_id <= end_id) =>
        /\ CrawlTotal <= CHUNK_SIZE
        /\ TasksHeld <= CHUNK_SIZE
        /\ Len(results) <= CHUNK_SIZE

(***************************************************************************)
(* The final leaderboard against the run that wrote it.                    *)
(***************************************************************************)
\* the rows of the records fetched in this run
FetchedRows == {ToRow(TheValue(tasks[pid].value)) : pid \in Present(start_id, end_id)}

\* C19: when a chunked run is done, every row of the final file carries an
\* ID of the range start_id..end_id and is the row of a record fetched in
\* this run, whatever OUTPUT_DIR held when the run started.
C19_OnlyThisRun ==
    (mode = "chunks" /\ pc = "done") =>
        \A i \in 1..Len(cwd[FINAL]) :
            /\ ParseInt(cwd[FINAL][i].ID) \in start_id..end_id
            /\ cwd[FINAL][i] \in FetchedRows

(***************************************************************************)
(* The leaderboard of a crawl against the order of completion.  The        *)
(* outcomes of the fetches of the crawl that just returned are in tasks;   *)
(* results holds the records in the order the fetches completed.           *)
(***************************************************************************)
\* crawl_projects has just returned, and the file it wrote
JustWritten ==
    \/ mode = "single" /\ pc = "done"
    \/ mode = "chunks" /\ pc = "run_chunks" /\ Len(chunks) >= 1 /\ Persisted(Len(chunks))

WrittenBoard == IF mode = "single" THEN cwd[FINAL] ELSE chunks_dir[FileName(Len(chunks))]

\* the records of the crawl in the order of their IDs: the collection of the
\* interleaving in which the fetches complete in the order they were
\* started, which every assignment of outcomes allows
InIDOrder ==
    IF mode = "single" THEN PresentRecords(Max(start_id, 1), end_id)
    ELSE PresentRecords(chunks[Len(chunks)][1], chunks[Len(chunks)][2])

Ties(recs) == \E i, j \in 1..Len(recs) : i # j /\ recs[i].Views = recs[j].Views

\* C20 as stated: the file a crawl writes is the one it writes when the same
\* outcomes arrive in the order of the IDs, so it does not depend on the
\* order of completion.
C20_OrderResolved ==
    JustWritten => WrittenBoard = ToRows(RankRecords(InIDOrder, TOP_N))

\* C20, amended: for every order in which the same records can be collected
\* the leaderboard has the same length and the same sequence of Views as the
\* file written, and it is the same leaderboard when no two records have
\* equal Views.
C20_OrderResolvedViews ==
    JustWritten =>
        \A s \in Orders(Range(results)) :
            /\ RowViewsOf(ToRows(RankRecords(s, TOP_N))) = RowViewsOf(WrittenBoard)
            /\ ~Ties(results) => ToRows(RankRecords(s, TOP_N)) = WrittenBoard

\* two records with equal Views were collected against the order of their
\* IDs, and the file written is not the one the order of the IDs gives
C20_Witness ==
    /\ JustWritten
    /\ Len(results) > TOP_N
    /\ Ties(results)
    /\ results # InIDOrder
    /\ WrittenBoard # ToRows(RankRecords(InIDOrder, TOP_N))
    /\ RowViewsOf(WrittenBoard) = RowViewsOf(ToRows(RankRecords(InIDOrder, TOP_N)))

=============================================================================
